---- MODULE Spec2Model ----
(***************************************************************************)
(* Model of src/plant_monitor.py (class PlantMoistureApp): the config      *)
(* store (load_config / save_config / save_manual / update_plant_name),    *)
(* the TCP listener (receive_data), the classifier (get_moisture_status),  *)
(* the monitor loop (monitor_moisture) and the callbacks it posts to the   *)
(* GUI thread with root.after, shutdown (on_closing) and a later start of  *)
(* the program on the file the earlier run left.                           *)
(*                                                                         *)
(* Voltages and thresholds are integers in tenths of a volt (3.3 V = 33).  *)
(* The display value (progress_value) is an exact fraction [num, den], so  *)
(* the arithmetic of get_moisture_status is exact, not floating point.     *)
(* The program runs with num_plants = 2. The calendar date never goes back.*)
(***************************************************************************)
EXTENDS Integers, Sequences, FiniteSets, TLC

\* ------------------------------------------------------------------ sizes
NumPlants == 2        \* self.num_plants: the constructor's argument, here 2
MaxDay == 1           \* calendar dates are 0..MaxDay
MaxQueue == 2         \* callbacks pending in the GUI thread's after-queue
MaxVoltage == 33      \* max_voltage = 3.3, the same 3.3 of save_manual

Plants == 0 .. (NumPlants - 1)

\* ------------------------------------------------------- exact fractions
\* a / b as Python computes it on numbers: ZeroDivisionError when b = 0.
Frac(n, d) ==
    IF d = 0 THEN [exc |-> "ZeroDivisionError", num |-> 0, den |-> 1]
    ELSE IF d < 0 THEN [exc |-> "none", num |-> -n, den |-> -d]
    ELSE [exc |-> "none", num |-> n, den |-> d]

Whole(k) == [exc |-> "none", num |-> k, den |-> 1]

\* k + f * m for a fraction f (an error in f propagates).
Affine(k, f, m) == [exc |-> f.exc, num |-> k * f.den + f.num * m, den |-> f.den]

FracLess(f, g) == f.num * g.den < g.num * f.den

\* max(0, min(100, progress_value)): min(100, p) is p when p < 100, else 100;
\* max(0, m) is m when m > 0, else 0.
Clamp(f) ==
    IF f.exc # "none" THEN f
    ELSE LET m == IF FracLess(f, Whole(100)) THEN f ELSE Whole(100)
         IN  IF FracLess(Whole(0), m) THEN m ELSE Whole(0)

\* ------------------------------------------------------------ the state
VARIABLES
    config,              \* self.config: last_dry_check and one entry per plant
    file,                \* the content of self.config_file
    disk,                \* environment: what a write to the config file meets
    channels,            \* self.channels: None or an object (value, voltage)
    hardware_ready,      \* self.hardware_ready
    monitoring,          \* self.monitoring
    root_alive,          \* FALSE once self.root.destroy() has run
    today,               \* the calendar date datetime.now() falls on
    m_pc,                \* where the monitor thread stands in monitor_moisture
    m_i,                 \* the loop variable i of monitor_moisture
    raw_value,           \* local raw_value of monitor_moisture
    voltage,             \* local voltage of monitor_moisture
    status,              \* the latest get_moisture_status call: arguments and result
    current_dry_plants,  \* local set current_dry_plants of monitor_moisture
    queue,               \* callbacks posted with root.after(0, ...), in order
    dry_listbox,         \* the items of self.dry_listbox
    sweeps,              \* history: daily checks run on each date (2 = two or more)
    last_alert,          \* history: show_alert of each plant's latest classification
    l_pc,                \* receive_data's thread: "run", "exit", "none" (not started)
    relaunched,          \* history: the program was closed and started again
    do_daily_check,      \* local do_daily_check of monitor_moisture
    l_hist               \* history: "bad" after a message that raised in the
                         \* listener, "applied" once a later one was applied

cfgVars == <<config, file, disk>>
srcVars == <<channels, hardware_ready, l_pc, relaunched, l_hist>>
monVars == <<m_pc, m_i, raw_value, voltage, current_dry_plants, sweeps, last_alert,
             do_daily_check>>
guiVars == <<queue, dry_listbox>>
vars == <<config, file, disk, channels, hardware_ready, monitoring, root_alive, today,
          m_pc, m_i, raw_value, voltage, status, current_dry_plants, queue,
          dry_listbox, sweeps, last_alert, l_pc, relaunched, do_daily_check, l_hist>>

\* ------------------------------------------------------ config entries
\* One plant_<i> entry. kind "ok" is an object with numeric thresholds; kind
\* "bad" is an object with the name and image_path setup_plant_tile reads,
\* on which ['dry_threshold'] or the comparison with it raises (the key is
\* missing, the threshold is a string); kind "absent" is a missing key.
Entry(d, w, n) == [kind |-> "ok", dry_threshold |-> d, wet_threshold |-> w, name |-> n]
BadEntry == [kind |-> "bad", dry_threshold |-> 0, wet_threshold |-> 0, name |-> ""]
AbsentEntry == [kind |-> "absent", dry_threshold |-> 0, wet_threshold |-> 0, name |-> ""]

\* f"Plant {i+1}"
DefaultName(i) == IF i = 0 THEN "Plant 1" ELSE IF i = 1 THEN "Plant 2"
                  ELSE IF i = 2 THEN "Plant 3" ELSE "Plant 4"

\* default_config[f"plant_{i}"]: dry 1.5, wet 2.5
DefaultEntry(i) == Entry(15, 25, DefaultName(i))

\* ------------------------------------------------- last_dry_check values
\* "iso" is datetime.isoformat() text of a moment on calendar date `date`;
\* "empty" is ""; "garbage" is a string fromisoformat() rejects (ValueError);
\* "number" is a JSON value that is no string (fromisoformat: TypeError);
\* "absent" is a missing key (in a file only).
LdcEmpty == [kind |-> "empty", date |-> 0]
LdcAbsent == [kind |-> "absent", date |-> 0]
LdcGarbage == [kind |-> "garbage", date |-> 0]
LdcNumber == [kind |-> "number", date |-> 0]
isoformat(d) == [kind |-> "iso", date |-> d]

fromisoformat(l) ==
    IF l.kind = "iso" THEN [exc |-> "none", date |-> l.date]
    ELSE IF l.kind = "garbage" THEN [exc |-> "ValueError", date |-> 0]
    ELSE [exc |-> "TypeError", date |-> 0]

\* ------------------------------------------------------ the config file
\* kind "doc" is a JSON object; "missing" is no readable file; "corrupt" is
\* text json.load rejects (also an empty or half-written file); "notobject"
\* is valid JSON that is no object. extra is the set of keys of the object
\* other than last_dry_check and plant_<i>, i < num_plants.
ExtraKeys == {"theme"}
NoFile(k) == [kind |-> k, last_dry_check |-> LdcAbsent,
              plants |-> [i \in Plants |-> AbsentEntry], extra |-> {}]
DocX(l, ps, x) == [kind |-> "doc", last_dry_check |-> l, plants |-> ps, extra |-> x]
Doc(l, ps) == DocX(l, ps, {})

default_config == [last_dry_check |-> LdcEmpty,
                   plants |-> [i \in Plants |-> DefaultEntry(i)],
                   extra |-> {}]

\* Mutant: the thresholds are written rounded down to whole volts.
json_dump_WholeVolts(cfg) ==
    DocX(cfg.last_dry_check,
         [i \in Plants |->
            [cfg.plants[i] EXCEPT !.dry_threshold = (@ \div 10) * 10,
                                  !.wet_threshold = (@ \div 10) * 10]],
         cfg.extra)

\* json.dump(self.config, f): the document that holds the config's keys.
\* A float is written by repr and read back to the same float.
json_dump(cfg) == DocX(cfg.last_dry_check, cfg.plants, cfg.extra)

\* What a write meets: "ok", the write succeeds; "readonly", open() raises
\* and the file is as before; "full", the write raises after open(.., 'w')
\* truncated the file.
DiskStates == {"ok", "readonly", "full"}

\* save_config: the content of the file afterwards (the exception is caught).
save_config(cfg, f) ==
    IF disk = "ok" THEN json_dump(cfg)
    ELSE IF disk = "readonly" THEN f
    ELSE NoFile("corrupt")

\* Mutant: an entry that is no well-formed object is replaced as well.
Repaired_Validating(f, i) ==
    IF f.plants[i].kind # "ok" THEN default_config.plants[i] ELSE f.plants[i]

\* lines 100-104: a missing plant_<i> key gets the default entry.
Repaired(f, i) ==
    IF f.plants[i].kind = "absent" THEN default_config.plants[i] ELSE f.plants[i]

\* lines 90-112, the try block of load_config: "missing" takes the default
\* and saves it; json.load raises on "corrupt"; on "notobject" line 98
\* (self.config.keys()) raises; a "doc" is kept, its missing keys filled.
TryLoad(f) ==
    IF f.kind = "missing"
    THEN [exc |-> "none", config |-> default_config, saved |-> TRUE]
    ELSE IF f.kind = "corrupt"
    THEN [exc |-> "JSONDecodeError", config |-> default_config, saved |-> FALSE]
    ELSE IF f.kind = "notobject"
    THEN [exc |-> "AttributeError", config |-> default_config, saved |-> FALSE]
    ELSE [exc |-> "none",
          config |-> [last_dry_check |-> IF f.last_dry_check.kind = "absent"
                                         THEN default_config.last_dry_check
                                         ELSE f.last_dry_check,
                      plants |-> [i \in Plants |-> Repaired(f, i)],
                      extra |-> f.extra],
          saved |-> FALSE]

\* Mutant: only line 113 (except json.JSONDecodeError), no line 117.
Caught_DecodeOnly(exc) == exc = "JSONDecodeError"

\* lines 113 and 117: except json.JSONDecodeError, except Exception.
Caught(exc) == exc \in {"JSONDecodeError", "AttributeError", "TypeError", "ValueError"}

\* load_config: the exception it leaves with ("none": it returns), the
\* config it leaves in self.config, and whether it called save_config.
load_config(f) ==
    LET r == TryLoad(f)
    IN  IF r.exc # "none" /\ Caught(r.exc)
        THEN [exc |-> "none", config |-> default_config, saved |-> TRUE]
        ELSE r

\* ------------------------------------------------------- the classifier
NoStatus == [exc |-> "unset", status_text |-> "", status_color |-> "",
             progress_value |-> Whole(0), show_alert |-> FALSE,
             voltage |-> 0, dry_threshold |-> 0, wet_threshold |-> 0]

\* line 369
DryProgress(v, dry_threshold) ==
    IF dry_threshold > 0 THEN Affine(0, Frac(v, dry_threshold), 20) ELSE Whole(0)

\* Mutant: line 374 without its guard.
WetProgress_NoGuard(v, wet_threshold) ==
    Affine(80, Frac(v - wet_threshold, MaxVoltage - wet_threshold), 20)

\* line 374
WetProgress(v, wet_threshold) ==
    IF MaxVoltage > wet_threshold
    THEN Affine(80, Frac(v - wet_threshold, MaxVoltage - wet_threshold), 20)
    ELSE Whole(100)

\* Mutant: line 379 spanning 80 points instead of 60.
PerfectProgress_Span80(v, dry_threshold, wet_threshold) ==
    IF wet_threshold > dry_threshold
    THEN Affine(20, Frac(v - dry_threshold, wet_threshold - dry_threshold), 80)
    ELSE Whole(20)

\* line 379
PerfectProgress(v, dry_threshold, wet_threshold) ==
    IF wet_threshold > dry_threshold
    THEN Affine(20, Frac(v - dry_threshold, wet_threshold - dry_threshold), 60)
    ELSE Whole(20)

\* Mutant: the wet branch raises the alert too.
Branch_WetAlerts(v, dry_threshold, wet_threshold) ==
    IF v < dry_threshold
    THEN [status_text |-> "DRY - WATER NEEDED!", status_color |-> "#FF9999",
          progress_value |-> DryProgress(v, dry_threshold), show_alert |-> TRUE]
    ELSE IF v > wet_threshold
    THEN [status_text |-> "TOO WET", status_color |-> "#99CCFF",
          progress_value |-> WetProgress(v, wet_threshold), show_alert |-> TRUE]
    ELSE [status_text |-> "PERFECT", status_color |-> "#99FF99",
          progress_value |-> PerfectProgress(v, dry_threshold, wet_threshold),
          show_alert |-> FALSE]

\* Mutant: line 366 with <= for <.
Branch_DryAtBoundary(v, dry_threshold, wet_threshold) ==
    IF v <= dry_threshold
    THEN [status_text |-> "DRY - WATER NEEDED!", status_color |-> "#FF9999",
          progress_value |-> DryProgress(v, dry_threshold), show_alert |-> TRUE]
    ELSE IF v > wet_threshold
    THEN [status_text |-> "TOO WET", status_color |-> "#99CCFF",
          progress_value |-> WetProgress(v, wet_threshold), show_alert |-> FALSE]
    ELSE [status_text |-> "PERFECT", status_color |-> "#99FF99",
          progress_value |-> PerfectProgress(v, dry_threshold, wet_threshold),
          show_alert |-> FALSE]

\* lines 366-380: the if / elif / else
Branch(v, dry_threshold, wet_threshold) ==
    IF v < dry_threshold
    THEN [status_text |-> "DRY - WATER NEEDED!", status_color |-> "#FF9999",
          progress_value |-> DryProgress(v, dry_threshold), show_alert |-> TRUE]
    ELSE IF v > wet_threshold
    THEN [status_text |-> "TOO WET", status_color |-> "#99CCFF",
          progress_value |-> WetProgress(v, wet_threshold), show_alert |-> FALSE]
    ELSE [status_text |-> "PERFECT", status_color |-> "#99FF99",
          progress_value |-> PerfectProgress(v, dry_threshold, wet_threshold),
          show_alert |-> FALSE]

\* The call get_moisture_status(v, plant_id): its result, with the voltage
\* and the thresholds it read. exc names the exception it raised, if any.
get_moisture_status(v, plant_id) ==
    LET e == config.plants[plant_id]
        r == Branch(v, e.dry_threshold, e.wet_threshold)
    IN  IF e.kind # "ok"
        THEN [NoStatus EXCEPT !.exc = "TypeError", !.voltage = v]
        ELSE [exc |-> r.progress_value.exc,
              status_text |-> r.status_text, status_color |-> r.status_color,
              progress_value |-> Clamp(r.progress_value),
              show_alert |-> r.show_alert,
              voltage |-> v, dry_threshold |-> e.dry_threshold,
              wet_threshold |-> e.wet_threshold]

\* -------------------------------------------------------- input sets
\* Voltages a sender reports; -0.5 V and 5.0 V are out of the 0.0 - 3.3 range.
ValidVoltages == {10, 20, 30}
ReportedVoltages == {-5, 0, 10, 20, 33, 50}
EngineVoltages == {10, 20}

\* The values a key of an ingest message can carry: no such key, a number,
\* or a JSON value that is no number (a string, null, an object).
NoKey == [kind |-> "absent", v |-> 0]
Num(x) == [kind |-> "num", v |-> x]
NotNum == [kind |-> "str", v |-> 0]
KeyValues == {NoKey, NotNum} \cup {Num(x) : x \in ReportedVoltages}

\* plant_<k> keys of a message: the ids in range and one id beyond them.
MsgKeys == 0 .. NumPlants
ObjectMessages ==
    {[kind |-> "object", keys |-> ks] :
        ks \in {f \in [MsgKeys -> KeyValues] : f[NumPlants] \in {NoKey, Num(10)}}}
OtherMessages ==
    {[kind |-> k, keys |-> [j \in MsgKeys |-> NoKey]] :
        k \in {"empty", "malformed", "notobject"}}
Messages == ObjectMessages \cup OtherMessages

\* The messages of the engine's specification: numbers for ids in range.
EngineMessages ==
    {m \in ObjectMessages :
        /\ m.keys[NumPlants] = NoKey
        /\ \A i \in Plants : m.keys[i] \in {NoKey} \cup {Num(x) : x \in EngineVoltages}}

\* What the threshold entries of the manual window can hold: a number, or
\* text DoubleVar.get() raises on.
ThresholdInputs == {Num(x) : x \in {-5, 0, 20, 33, 40}} \cup {NotNum}

\* The (dry, wet) pairs tried in the window: in range and ordered, equal,
\* inverted, below 0.0, above 3.3, not a number.
ThresholdRequests ==
    {<<Num(0), Num(20)>>, <<Num(20), Num(33)>>, <<Num(0), Num(33)>>,
     <<Num(20), Num(20)>>, <<Num(33), Num(20)>>, <<Num(-5), Num(20)>>,
     <<Num(20), Num(40)>>, <<NotNum, Num(20)>>, <<Num(20), NotNum>>}

\* The (dry, wet) pairs of the engine's specification.
EngineThresholds == {<<Num(10), Num(25)>>, <<Num(25), Num(10)>>}

\* Names typed into a plant's name field ("" is ignored by the handler).
NameInputs == {"", "Fern"}
EngineNames == {"Fern"}

\* Contents the config file can have when the program starts.
EngineFiles ==
    { json_dump(default_config),
      Doc(LdcGarbage, [i \in Plants |->
            IF i = NumPlants - 1 THEN BadEntry ELSE DefaultEntry(i)]),
      Doc(LdcNumber, [i \in Plants |-> DefaultEntry(i)]),
      Doc(isoformat(0), [i \in Plants |-> Entry(15, 25, "Fern")]) }

FileContents ==
    { NoFile("missing"), NoFile("corrupt"), NoFile("notobject"),
      json_dump(default_config),
      DocX(isoformat(0), [i \in Plants |->
            IF i = 0 THEN Entry(25, 15, "Plant 1") ELSE AbsentEntry], ExtraKeys),
      Doc(LdcGarbage, [i \in Plants |->
            IF i = NumPlants - 1 THEN BadEntry ELSE DefaultEntry(i)]),
      Doc(LdcNumber, [i \in Plants |-> DefaultEntry(i)]),
      DocX(LdcAbsent, [i \in Plants |->
            IF i = 0 THEN AbsentEntry ELSE Entry(10, 25, "Fern")], ExtraKeys) }

\* ------------------------------------------------------------- channels
None == [set |-> FALSE, value |-> 0, voltage |-> 0]

\* int(x * 1023 / 3.3): truncation towards zero.
ToRaw(x) == IF x >= 0 THEN (x * 1023) \div MaxVoltage
            ELSE -(((-x) * 1023) \div MaxVoltage)

\* type('obj', (), {'value': ..., 'voltage': ...})
Obj(x) == [set |-> TRUE, value |-> ToRaw(x), voltage |-> x]

\* ------------------------------------------------------------ callbacks
\* One root.after(0, fn, ...) entry.
Callback(fn, id, raw, st, name) ==
    [fn |-> fn, plant_id |-> id, status_text |-> st.status_text,
     show_alert |-> st.show_alert, name |-> name]

\* ----------------------------------------------------------------- Init
InitWith(files, disks, ready) ==
    /\ disk \in disks
    /\ \E f \in files :
         LET l == load_config(f)
         IN  /\ l.exc = "none"
             /\ config = l.config
             /\ file = IF l.saved THEN save_config(l.config, f) ELSE f
    /\ channels = [i \in Plants |-> None]
    /\ hardware_ready \in ready
    /\ monitoring = TRUE
    /\ root_alive = TRUE
    /\ today = 0
    /\ m_pc = "while"
    /\ m_i = 0
    /\ raw_value = 0
    /\ voltage = 0
    /\ status = NoStatus
    /\ current_dry_plants = {}
    /\ queue = <<>>
    /\ dry_listbox = <<>>
    /\ sweeps = [d \in 0 .. MaxDay |-> 0]
    /\ last_alert = [i \in Plants |-> FALSE]
    /\ l_pc = IF hardware_ready THEN "run" ELSE "none"
    /\ relaunched = FALSE
    /\ do_daily_check = FALSE
    /\ l_hist = "none"

Init == InitWith(EngineFiles, {"ok"}, BOOLEAN)

\* ------------------------------------------------------- the listener
\* receive_data, one accepted connection that sent `msg`. The keys are
\* applied in order of i; a value that is no number raises TypeError out of
\* the for loop, so the keys after it are not applied.
\* Mutant: the for loop stops after the first plant.
Applied_FirstOnly(msg, i) ==
    /\ i = 0
    /\ msg.kind = "object"
    /\ msg.keys[i].kind = "num"

Applied(msg, i) ==
    /\ msg.kind = "object"
    /\ msg.keys[i].kind = "num"
    /\ \A j \in 0 .. i : msg.keys[j].kind # "str"

\* The exception the body of the while loop raises on a message: json.loads
\* on text that is no JSON; line 67 (key in sensor_data) on JSON that is no
\* object; line 68 (sensor_data[key] * 1023) on a value that is no number.
Raised(msg) ==
    IF msg.kind = "malformed" THEN "JSONDecodeError"
    ELSE IF msg.kind = "notobject" THEN "TypeError"
    ELSE IF msg.kind = "object" /\ \E i \in Plants : msg.keys[i].kind = "str"
    THEN "TypeError"
    ELSE "none"

\* Mutant: only line 69 (except json.JSONDecodeError), no line 73.
ListenerCaught_DecodeOnly(exc) == exc = "JSONDecodeError"

\* lines 69, 71 and 73: except json.JSONDecodeError, socket.timeout, Exception.
ListenerCaught(exc) == exc \in {"JSONDecodeError", "TypeError", "timeout", "OSError"}

receive_data(msg) ==
    /\ l_pc = "run"
    /\ monitoring
    /\ hardware_ready
    /\ channels' = [i \in Plants |->
                      IF Applied(msg, i) THEN Obj(msg.keys[i].v) ELSE channels[i]]
    /\ l_pc' = IF Raised(msg) = "none" \/ ListenerCaught(Raised(msg))
               THEN "run" ELSE "exit"
    /\ l_hist' = IF Raised(msg) # "none" THEN "bad"
                 ELSE IF l_hist = "bad" /\ \E i \in Plants : Applied(msg, i)
                 THEN "applied"
                 ELSE l_hist
    /\ UNCHANGED <<cfgVars, hardware_ready, relaunched, monitoring, root_alive,
                   today, status, monVars, guiVars>>

\* line 56 once on_closing has cleared the flag: accept() times out or
\* raises on the closed socket, and the while condition ends the thread.
ListenerExit ==
    /\ l_pc = "run"
    /\ ~monitoring
    /\ l_pc' = "exit"
    /\ UNCHANGED <<cfgVars, channels, hardware_ready, relaunched, l_hist, monitoring,
                   root_alive, today, status, monVars, guiVars>>

\* ---------------------------------------------------- the monitor loop
\* Mutant: while True.
MonitorWhile_Forever ==
    /\ m_pc = "while"
    /\ m_pc' = "daily"
    /\ do_daily_check' = FALSE
    /\ UNCHANGED <<cfgVars, srcVars, monitoring, root_alive, today, status, m_i,
                   raw_value, voltage, current_dry_plants, sweeps,
                   last_alert, guiVars>>

\* line 387: while self.monitoring; line 390 sets do_daily_check = False.
MonitorWhile ==
    /\ m_pc = "while"
    /\ m_pc' = IF monitoring THEN "daily" ELSE "exit"
    /\ do_daily_check' = FALSE
    /\ UNCHANGED <<cfgVars, srcVars, monitoring, root_alive, today, status, m_i,
                   raw_value, voltage, current_dry_plants, sweeps,
                   last_alert, guiVars>>

\* Mutant: line 397 with >= for >.
DailyCheck_SameDay(l, now) ==
    IF l.kind = "empty" THEN [exc |-> "none", do_daily_check |-> TRUE]
    ELSE LET t == fromisoformat(l)
         IN  IF t.exc = "none" THEN [exc |-> "none", do_daily_check |-> now >= t.date]
             ELSE IF t.exc = "ValueError" THEN [exc |-> "none", do_daily_check |-> TRUE]
             ELSE [exc |-> t.exc, do_daily_check |-> FALSE]

\* lines 392-401: do_daily_check, or the exception that escapes the block.
DailyCheck(l, now) ==
    IF l.kind = "empty" THEN [exc |-> "none", do_daily_check |-> TRUE]
    ELSE LET t == fromisoformat(l)
         IN  IF t.exc = "none" THEN [exc |-> "none", do_daily_check |-> now > t.date]
             ELSE IF t.exc = "ValueError" THEN [exc |-> "none", do_daily_check |-> TRUE]
             ELSE [exc |-> t.exc, do_daily_check |-> FALSE]

\* lines 389-407
MonitorDaily ==
    /\ m_pc = "daily"
    /\ LET c == DailyCheck(config.last_dry_check, today)
       IN  IF c.exc # "none"
           THEN /\ m_pc' = "except"
                /\ UNCHANGED <<cfgVars, m_i, current_dry_plants, sweeps>>
           ELSE IF c.do_daily_check
           THEN /\ current_dry_plants' = {}
                /\ config' = [config EXCEPT !.last_dry_check = isoformat(today)]
                /\ file' = save_config(config', file)
                /\ UNCHANGED disk
                /\ sweeps' = [sweeps EXCEPT ![today] = IF @ < 2 THEN @ + 1 ELSE 2]
                /\ m_pc' = "for"
                /\ m_i' = 0
           ELSE /\ m_pc' = "for"
                /\ m_i' = 0
                /\ UNCHANGED <<cfgVars, current_dry_plants, sweeps>>
    /\ do_daily_check' = LET c == DailyCheck(config.last_dry_check, today)
                         IN  c.exc = "none" /\ c.do_daily_check
    /\ UNCHANGED <<srcVars, monitoring, root_alive, today, status, raw_value, voltage,
                   last_alert, guiVars>>

\* random.uniform(0.0, 3.3)
RandomVoltages == ValidVoltages

\* lines 411-412 and 414-416: the first read of self.channels[i]
MonitorRead ==
    /\ m_pc = "for"
    /\ IF hardware_ready /\ channels[m_i].set
       THEN /\ raw_value' = channels[m_i].value
            /\ m_pc' = "voltage"
            /\ UNCHANGED voltage
       ELSE /\ raw_value' = 0
            /\ voltage' \in RandomVoltages
            /\ m_pc' = "classify"
    /\ UNCHANGED <<cfgVars, srcVars, monitoring, root_alive, today, status, m_i,
                   current_dry_plants, sweeps, last_alert, do_daily_check, guiVars>>

\* line 413: the second read of self.channels[i]
MonitorReadVoltage ==
    /\ m_pc = "voltage"
    /\ voltage' = channels[m_i].voltage
    /\ m_pc' = "classify"
    /\ UNCHANGED <<cfgVars, srcVars, monitoring, root_alive, today, status, m_i,
                   raw_value, current_dry_plants, sweeps, last_alert, do_daily_check,
                   guiVars>>

\* lines 421-428: the callbacks posted for the dry list and the new set.
AlertUpdate(show_alert, plant_name, dry) ==
    IF show_alert
    THEN IF plant_name \notin dry
         THEN [posted |-> <<Callback("insert", 0, 0, NoStatus, plant_name)>>,
               dry |-> dry \cup {plant_name}]
         ELSE [posted |-> <<>>, dry |-> dry]
    ELSE IF plant_name \in dry
         THEN [posted |-> <<Callback("remove", 0, 0, NoStatus, plant_name)>>,
               dry |-> dry \ {plant_name}]
         ELSE [posted |-> <<>>, dry |-> dry]

\* lines 418-428 for plant i, then the next i, or line 430 after the last.
\* get_moisture_status raises on a bad entry and root.after raises once the
\* root is destroyed: both leave the for loop for the except clause.
\* The locals raw_value and voltage are not read again before the next
\* read assigns them; they are cleared here.
\* Mutant: outside the daily check the loop visits plant 0 only.
LoopRange_Primary(daily) == IF daily THEN Plants ELSE {0}

\* line 409: range(self.num_plants), whether or not the daily check ran.
LoopRange(daily) == Plants

MonitorClassify ==
    /\ m_pc = "classify"
    /\ Len(queue) + 2 <= MaxQueue
    /\ LET st == get_moisture_status(voltage, m_i)
           a == AlertUpdate(st.show_alert, config.plants[m_i].name, current_dry_plants)
       IN  IF st.exc # "none" \/ ~root_alive
           THEN /\ m_pc' = "except"
                /\ UNCHANGED <<m_i, current_dry_plants, last_alert, queue>>
           ELSE /\ queue' = Append(queue, Callback("update_gui", m_i, raw_value, st, ""))
                                \o a.posted
                /\ current_dry_plants' = a.dry
                /\ last_alert' = [last_alert EXCEPT ![m_i] = st.show_alert]
                /\ m_i' = IF m_i + 1 \in LoopRange(do_daily_check) THEN m_i + 1 ELSE 0
                /\ m_pc' = IF m_i + 1 \in LoopRange(do_daily_check)
                           THEN "for" ELSE "while"
    /\ raw_value' = 0
    /\ voltage' = 0
    /\ UNCHANGED <<cfgVars, srcVars, monitoring, root_alive, today, status,
                   sweeps, do_daily_check, dry_listbox>>

\* Mutant: the handler leaves the loop (break after line 432).
MonitorExcept_Break ==
    /\ m_pc = "except"
    /\ m_pc' = "exit"
    /\ m_i' = 0
    /\ UNCHANGED <<cfgVars, srcVars, monitoring, root_alive, today, status, raw_value,
                   voltage, current_dry_plants, sweeps, last_alert, do_daily_check,
                   guiVars>>

\* lines 431-434: a second exception inside the handler ends the thread.
MonitorExcept ==
    /\ m_pc = "except"
    /\ IF root_alive
       THEN /\ Len(queue) + 1 <= MaxQueue
            /\ queue' = Append(queue, Callback("update_gui_error", 0, 0, NoStatus, ""))
            /\ m_pc' = "while"
       ELSE /\ m_pc' = "dead"
            /\ UNCHANGED queue
    /\ m_i' = 0
    /\ UNCHANGED <<cfgVars, srcVars, monitoring, root_alive, today, status, raw_value,
                   voltage, current_dry_plants, sweeps, last_alert, do_daily_check,
                   dry_listbox>>

\* ------------------------------------------------------ the GUI thread
\* remove_from_dry_list: delete the first item equal to plant_name, if any.
RECURSIVE remove_from_dry_list(_, _)
remove_from_dry_list(items, plant_name) ==
    IF items = <<>> THEN <<>>
    ELSE IF Head(items) = plant_name THEN Tail(items)
    ELSE <<Head(items)>> \o remove_from_dry_list(Tail(items), plant_name)

\* What running a posted callback does to the dry list. update_gui writes
\* only the plant's tile widgets, which are not part of the state here.
RunCallback(cb, items) ==
    IF cb.fn = "insert" THEN Append(items, cb.name)
    ELSE IF cb.fn = "remove" THEN remove_from_dry_list(items, cb.name)
    ELSE IF cb.fn = "update_gui_error" THEN <<>>
    ELSE items

\* The Tk main loop runs the oldest pending callback.
GuiRun ==
    /\ root_alive
    /\ queue # <<>>
    /\ dry_listbox' = RunCallback(Head(queue), dry_listbox)
    /\ queue' = Tail(queue)
    /\ UNCHANGED <<cfgVars, srcVars, monitoring, root_alive, today, status, monVars>>

\* update_plant_name (lines 295-308) with `name` in the plant's name field.
update_plant_name(plant_id, name) ==
    /\ root_alive
    /\ IF name # "" /\ config.plants[plant_id].kind = "ok"
       THEN /\ config' = [config EXCEPT !.plants[plant_id].name = name]
            /\ file' = save_config(config', file)
            /\ UNCHANGED disk
       ELSE UNCHANGED cfgVars
    /\ UNCHANGED <<srcVars, monitoring, root_alive, today, status, monVars, guiVars>>

\* Mutant: line 344 without dry < wet.
ThresholdsAccepted_NoOrder(dry, wet) ==
    /\ dry.kind = "num" /\ wet.kind = "num"
    /\ 0 <= dry.v /\ dry.v <= MaxVoltage
    /\ 0 <= wet.v /\ wet.v <= MaxVoltage

\* The test of line 344.
ThresholdsAccepted(dry, wet) ==
    /\ dry.kind = "num" /\ wet.kind = "num"
    /\ 0 <= dry.v /\ dry.v <= MaxVoltage
    /\ 0 <= wet.v /\ wet.v <= MaxVoltage
    /\ dry.v < wet.v

\* save_manual (lines 340-354) with `dry` and `wet` in the two entries of the
\* window manual_thresholds opened for plant_id (it opens for an entry whose
\* name and thresholds can be read).
save_manual(plant_id, dry, wet) ==
    /\ root_alive
    /\ config.plants[plant_id].kind = "ok"
    /\ IF ThresholdsAccepted(dry, wet)
       THEN /\ config' = [config EXCEPT !.plants[plant_id].dry_threshold = dry.v,
                                        !.plants[plant_id].wet_threshold = wet.v]
            /\ file' = save_config(config', file)
            /\ UNCHANGED disk
       ELSE UNCHANGED cfgVars
    /\ UNCHANGED <<srcVars, monitoring, root_alive, today, status, monVars, guiVars>>

\* on_closing (lines 519-527). Destroying the root discards the callbacks
\* that are still pending.
on_closing ==
    /\ root_alive
    /\ monitoring' = FALSE
    /\ file' = save_config(config, file)
    /\ root_alive' = FALSE
    /\ queue' = <<>>
    /\ UNCHANGED <<config, disk, srcVars, today, status, monVars, dry_listbox>>

\* The program is started again after it was closed: __init__ (lines 17-40)
\* of the new process, which reads the file the old one left. An exception
\* of load_config leaves __init__ at line 40, before the window and the
\* threads exist. setup_server fails when the port cannot be bound.
Start ==
    /\ ~root_alive
    /\ monitoring' = TRUE
    /\ LET l == load_config(file)
       IN  /\ config' = l.config
           /\ file' = IF l.saved THEN save_config(l.config, file) ELSE file
           /\ root_alive' = (l.exc = "none")
           /\ hardware_ready' \in IF l.exc = "none" THEN BOOLEAN ELSE {TRUE}
           /\ l_pc' = IF l.exc = "none" /\ hardware_ready' THEN "run" ELSE "none"
           /\ m_pc' = IF l.exc = "none" THEN "while" ELSE "none"
    /\ channels' = [i \in Plants |-> None]
    /\ m_i' = 0
    /\ raw_value' = 0
    /\ voltage' = 0
    /\ current_dry_plants' = {}
    /\ last_alert' = [i \in Plants |-> FALSE]
    /\ queue' = <<>>
    /\ dry_listbox' = <<>>
    /\ relaunched' = TRUE
    /\ do_daily_check' = FALSE
    /\ l_hist' = "none"
    /\ UNCHANGED <<disk, today, status, sweeps>>

\* While the program is not running, the file is replaced from outside.
FileEdit ==
    /\ ~root_alive
    /\ file' \in FileContents
    /\ UNCHANGED <<config, disk, srcVars, monitoring, root_alive, today, status,
                   monVars, guiVars>>

\* ------------------------------------------------------------ the clock
\* Midnight passes.
Tick ==
    /\ today < MaxDay
    /\ today' = today + 1
    /\ UNCHANGED <<cfgVars, srcVars, monitoring, root_alive, status, monVars, guiVars>>

\* The condition of the disk changes.
DiskChange ==
    /\ disk' \in DiskStates \ {disk}
    /\ UNCHANGED <<config, file, srcVars, monitoring, root_alive, today, status,
                   monVars, guiVars>>

\* ----------------------------------------------------- the specification
\* The engine: the listener, the monitor loop, the GUI thread's callbacks, a
\* rename, shutdown and the clock, on a disk that takes every write.
Next ==
    \/ \E msg \in EngineMessages : receive_data(msg)
    \/ ListenerExit
    \/ MonitorWhile
    \/ MonitorDaily
    \/ MonitorRead
    \/ MonitorReadVoltage
    \/ MonitorClassify
    \/ MonitorExcept
    \/ GuiRun
    \/ update_plant_name(0, "Fern")
    \/ on_closing
    \/ Tick

Spec == Init /\ [][Next]_vars

\* The monitor loop across midnights, with threshold edits for the primary
\* plant and a disk that fails and recovers; the readings are simulated.
InitDaily == InitWith(EngineFiles, DiskStates, {FALSE})

NextDaily ==
    \/ MonitorWhile
    \/ MonitorDaily
    \/ MonitorRead
    \/ MonitorClassify
    \/ MonitorExcept
    \/ GuiRun
    \/ \E t \in EngineThresholds : save_manual(0, t[1], t[2])
    \/ DiskChange
    \/ Tick

SpecDaily == InitDaily /\ [][NextDaily]_vars

\* The config store: every file content at start, then threshold edits and
\* renames on a disk that fails and recovers.
InitConfig == InitWith(FileContents, DiskStates, {TRUE})

NextConfig ==
    \/ \E i \in Plants, t \in ThresholdRequests : save_manual(i, t[1], t[2])
    \/ \E i \in Plants, name \in NameInputs : update_plant_name(i, name)
    \/ DiskChange

SpecConfig == InitConfig /\ [][NextConfig]_vars

\* The config store across runs of the program: every file content at the
\* first start and put there between runs, threshold edits, closing and
\* starting again, on a disk that fails and recovers.
NextRestart ==
    \/ \E i \in Plants, t \in EngineThresholds : save_manual(i, t[1], t[2])
    \/ on_closing
    \/ Start
    \/ FileEdit
    \/ DiskChange

SpecRestart == InitConfig /\ [][NextRestart]_vars

\* Save, then load: the program is closed (on_closing saves the config) and
\* started again on the file it left, after threshold edits, on a disk that
\* fails and recovers.
NextRoundTrip ==
    \/ \E i \in Plants, t \in EngineThresholds : save_manual(i, t[1], t[2])
    \/ on_closing
    \/ Start
    \/ DiskChange

SpecRoundTrip == InitConfig /\ [][NextRoundTrip]_vars

\* Shutdown: the listener, the monitor loop and the GUI thread's callbacks
\* until the window is closed, and the two threads after it. A thread that
\* can take a step takes one: the sleeps and the accept timeout are finite.
InitStop == InitWith({json_dump(default_config)}, {"ok"}, BOOLEAN)

MonitorStep ==
    \/ MonitorWhile
    \/ MonitorDaily
    \/ MonitorRead
    \/ MonitorReadVoltage
    \/ MonitorClassify
    \/ MonitorExcept

NextStop ==
    \/ \E msg \in EngineMessages : receive_data(msg)
    \/ ListenerExit
    \/ MonitorStep
    \/ GuiRun
    \/ on_closing

SpecStop ==
    InitStop /\ [][NextStop]_vars /\ WF_vars(MonitorStep) /\ WF_vars(ListenerExit)

\* The monitor loop on configs that make cycles fail, with the listener, the
\* GUI thread's callbacks and shutdown. A thread that can take a step takes
\* one, and the GUI thread runs the callbacks posted to it.
SpecLoop ==
    Init /\ [][NextStop]_vars /\ WF_vars(MonitorStep) /\ WF_vars(GuiRun)

\* The listener alone, with every message.
NextIngest == \E msg \in Messages : receive_data(msg)

SpecIngest == Init /\ [][NextIngest]_vars

\* The classifier as a function: every voltage against every threshold pair
\* (the same pair for all plants), -0.2 V to 3.6 V.
ThresholdRange == -2 .. 36
VoltageRange == -2 .. 36

InitClassify ==
    /\ \E d \in ThresholdRange, w \in ThresholdRange :
          config = [last_dry_check |-> LdcEmpty,
                    plants |-> [i \in Plants |-> Entry(d, w, DefaultName(i))],
                    extra |-> {}]
    /\ file = json_dump(config)
    /\ disk = "ok"
    /\ channels = [i \in Plants |-> None]
    /\ hardware_ready = TRUE
    /\ monitoring = TRUE
    /\ root_alive = TRUE
    /\ today = 0
    /\ m_pc = "classify"
    /\ m_i \in Plants
    /\ raw_value = 0
    /\ voltage \in VoltageRange
    /\ status = NoStatus
    /\ current_dry_plants = {}
    /\ queue = <<>>
    /\ dry_listbox = <<>>
    /\ sweeps = [d \in 0 .. MaxDay |-> 0]
    /\ last_alert = [i \in Plants |-> FALSE]
    /\ l_pc = "run"
    /\ relaunched = FALSE
    /\ do_daily_check = FALSE
    /\ l_hist = "none"

\* line 418: the call, its result kept.
Classify ==
    /\ status.exc = "unset"
    /\ status' = get_moisture_status(voltage, m_i)
    /\ UNCHANGED <<cfgVars, srcVars, monitoring, root_alive, today, monVars, guiVars>>

SpecClassify == InitClassify /\ [][Classify]_vars

\* ------------------------------------------------------------- claims
\* The arguments of the call whose result `status` holds.
Called == status.exc # "unset"
CallDry == config.plants[m_i].dry_threshold
CallWet == config.plants[m_i].wet_threshold
IsDry == status.status_text = "DRY - WATER NEEDED!"
IsWet == status.status_text = "TOO WET"
IsPerfect == status.status_text = "PERFECT"

\* progress_value within 0.1 of t / 10
Near(f, t) == (t - 1) * f.den <= 10 * f.num /\ 10 * f.num <= (t + 1) * f.den

\* C2 as claimed: for every voltage and threshold pair, voltage < dry gives
\* DRY with the alert, voltage > wet gives WET without it, and the alert is
\* shown exactly when the state is DRY.
C2_AsClaimed ==
    Called =>
        /\ (voltage < CallDry => IsDry /\ status.show_alert)
        /\ (voltage > CallWet => IsWet /\ ~status.show_alert)
        /\ (status.show_alert <=> IsDry)

\* C2 amended: voltage < dry gives DRY with the alert; voltage > wet gives
\* WET without the alert unless voltage < dry as well (the dry test comes
\* first); the alert is shown exactly when the state is DRY.
C2_Classify ==
    Called =>
        /\ (voltage < CallDry => IsDry /\ status.show_alert)
        /\ (voltage > CallWet /\ ~(voltage < CallDry) => IsWet /\ ~status.show_alert)
        /\ (status.show_alert <=> IsDry)

C2_Witness ==
    /\ Called /\ voltage > CallWet /\ voltage >= CallDry /\ CallWet < CallDry
    /\ IsWet /\ ~status.show_alert

\* C3: with 0 <= dry < wet <= 3.3 and dry <= voltage <= wet, boundaries
\* included, the state is PERFECT and 20 <= progress_value <= 80.
C3_PerfectBand ==
    (/\ Called
     /\ 0 <= CallDry /\ CallDry < CallWet /\ CallWet <= MaxVoltage
     /\ CallDry <= voltage /\ voltage <= CallWet)
    => /\ IsPerfect
       /\ status.exc = "none"
       /\ ~FracLess(status.progress_value, Whole(20))
       /\ ~FracLess(Whole(80), status.progress_value)

C3_Witness ==
    /\ Called /\ 0 <= CallDry /\ CallDry < CallWet /\ CallWet <= MaxVoltage
    /\ voltage = CallDry /\ IsPerfect

\* C4: the call raises nothing and progress_value is within [0, 100], for
\* every voltage and threshold pair: dry = wet, dry = 0, wet = 3.3 included.
C4_Total ==
    Called =>
        /\ status.exc = "none"
        /\ ~FracLess(status.progress_value, Whole(0))
        /\ ~FracLess(Whole(100), status.progress_value)

C4_Witness ==
    /\ Called /\ CallWet = MaxVoltage /\ CallDry = CallWet /\ voltage > CallWet
    /\ status.exc = "none"

\* C5 as claimed: with dry 1.5 and wet 2.5, the voltages 1.0, 2.0, 3.0 are
\* DRY with the alert, PERFECT, WET, with display values 13.3, 50.0, 100.0,
\* each within 0.1.
C5_AsClaimed ==
    (Called /\ CallDry = 15 /\ CallWet = 25) =>
        /\ (voltage = 10 =>
              IsDry /\ status.show_alert /\ Near(status.progress_value, 133))
        /\ (voltage = 20 =>
              IsPerfect /\ ~status.show_alert /\ Near(status.progress_value, 500))
        /\ (voltage = 30 =>
              IsWet /\ ~status.show_alert /\ Near(status.progress_value, 1000))

\* C5 amended: the same, with display value 92.5 for the wet reading.
C5_Scenario ==
    (Called /\ CallDry = 15 /\ CallWet = 25) =>
        /\ (voltage = 10 =>
              IsDry /\ status.show_alert /\ Near(status.progress_value, 133))
        /\ (voltage = 20 =>
              IsPerfect /\ ~status.show_alert /\ Near(status.progress_value, 500))
        /\ (voltage = 30 =>
              IsWet /\ ~status.show_alert /\ Near(status.progress_value, 925))

C5_Witness == Called /\ CallDry = 15 /\ CallWet = 25 /\ voltage = 30 /\ IsWet

\* The callbacks a classify step posted for the dry list: those after the
\* update_gui callback it appended.
PostedAlerts == SubSeq(queue', Len(queue) + 2, Len(queue'))

\* The monitor loop classified plant i and dispatched the result.
Classified(i) == m_pc = "classify" /\ m_i = i /\ m_pc' \in {"for", "while"}

\* C1 as claimed, its part on repeated readings: a sensor classified DRY
\* again, with no other classification of it in between, posts no insertion
\* into and no removal from the dry list, whatever happened between the two
\* cycles (a daily check, a loop-level error, a rename).
C1_AsClaimed ==
    [][\A i \in Plants :
          (Classified(i) /\ last_alert[i] /\ last_alert'[i]) => PostedAlerts = <<>>]_vars

\* C6 as claimed: every plant's stored thresholds satisfy
\* 0.0 <= dry_threshold < wet_threshold <= 3.3 in every reachable state.
C6_AsClaimed ==
    \A i \in Plants :
        config.plants[i].kind = "ok" =>
            /\ 0 <= config.plants[i].dry_threshold
            /\ config.plants[i].dry_threshold < config.plants[i].wet_threshold
            /\ config.plants[i].wet_threshold <= MaxVoltage

\* C7: a save_manual request with entries dry, wet that are not both numbers
\* with 0.0 <= dry <= 3.3, 0.0 <= wet <= 3.3 and dry < wet leaves the config
\* and the file as they were; any other request replaces that plant's two
\* thresholds, nothing else, and writes the new config to the file when the
\* disk takes the write.
InRange(x) == x.kind = "num" /\ 0 <= x.v /\ x.v <= MaxVoltage

C7_UpdateThresholds ==
    [][\A i \in Plants, t \in ThresholdRequests :
          LET dry == t[1]
              wet == t[2]
          IN  save_manual(i, dry, wet) =>
              IF InRange(dry) /\ InRange(wet) /\ dry.v < wet.v
              THEN /\ config'.last_dry_check = config.last_dry_check
                   /\ \A j \in Plants \ {i} : config'.plants[j] = config.plants[j]
                   /\ config'.plants[i] =
                          Entry(dry.v, wet.v, config.plants[i].name)
                   /\ disk = "ok" => file' = DocX(config'.last_dry_check, config'.plants, config'.extra)
              ELSE config' = config /\ file' = file]_vars

\* An accepted request took effect where the file held something else.
C7_Witness ==
    \E i \in Plants :
        /\ config.plants[i].dry_threshold = 20
        /\ config.plants[i].wet_threshold = 33
        /\ file.kind = "doc"
        /\ file.plants[i] = config.plants[i]

\* C8 as claimed: the voltage the listener stores for a sensor is always
\* within [0.0, 3.3].
C8_AsClaimed ==
    \A i \in Plants :
        channels[i].set => 0 <= channels[i].voltage /\ channels[i].voltage <= MaxVoltage

\* C9: after a message whose values are all numbers within [0.0, 3.3], every
\* plant named in it holds the voltage of the message, every other plant
\* holds what it held before, and the key beyond the last plant changes
\* nothing: there are channels for the plants 0 .. N-1 and no others.
ValidMessage(msg) ==
    /\ msg.kind = "object"
    /\ \A k \in MsgKeys : msg.keys[k].kind # "absent" => InRange(msg.keys[k])

C9_LastWriteWins ==
    [][\A msg \in Messages :
          (ValidMessage(msg) /\ receive_data(msg)) =>
              /\ DOMAIN channels' = Plants
              /\ \A i \in Plants :
                    IF msg.keys[i].kind = "absent"
                    THEN channels'[i] = channels[i]
                    ELSE /\ channels'[i].set
                         /\ channels'[i].voltage = msg.keys[i].v]_vars

\* A later message overwrote one plant's reading and left another's.
C9_Witness ==
    /\ channels[0].set /\ channels[0].voltage = 33
    /\ channels[NumPlants - 1].set /\ channels[NumPlants - 1].voltage = 0

\* C10: the daily check runs at most once on each calendar date.
C10_OncePerDate == \A d \in 0 .. MaxDay : sweeps[d] <= 1

\* A second cycle on the date of a daily check has passed the check.
C10_Witness ==
    /\ today = 0 /\ sweeps[0] = 1
    /\ m_pc = "for" /\ m_i = 0
    /\ last_alert[NumPlants - 1]


\* C11 (as the specification states it): when the stored last_dry_check is
\* absent, empty or anything that is no ISO date-time, the daily check of
\* the monitor cycle counts it as never run: it clears the alert set for the
\* full sweep, stores the current moment as last_dry_check, writes the config
\* (on a disk that takes the write), and the cycle goes on to the plants
\* instead of to the error handler.
\* The code catches ValueError only (line 399): a stored value that is no
\* string makes fromisoformat raise TypeError, and the cycle ends in the
\* handler of line 431, in every cycle.
DailyStep == m_pc = "daily" /\ m_pc' # "daily"

C11_AsClaimed ==
    [][(DailyStep /\ config.last_dry_check.kind # "iso")
          => /\ m_pc' = "for"
             /\ current_dry_plants' = {}
             /\ config'.last_dry_check = isoformat(today)
             /\ (disk = "ok" => file' = json_dump(config'))]_vars

\* A step that is the start of the program after it was closed.
StartStep == ~root_alive /\ ~monitoring /\ monitoring'

\* C12: load_config raises on no content of the file (missing, unreadable,
\* empty, malformed, JSON that is no object): the start goes on past it; the
\* config it leaves has an entry for every plant and a last_dry_check; and
\* when the file gave no object the config is the default and it is saved
\* at once (the file holds it when the disk takes the write).
C12_LoadTotal ==
    [][StartStep
          => /\ root_alive'
             /\ \A i \in Plants : config'.plants[i].kind # "absent"
             /\ config'.last_dry_check.kind # "absent"
             /\ (file.kind # "doc"
                    => /\ config' = default_config
                       /\ (disk = "ok" => file' = json_dump(default_config)))]_vars

\* The program was started on a file with no JSON in it and took the
\* default; the disk refused the save, so the file is as it was.
C12_Witness ==
    /\ relaunched
    /\ root_alive
    /\ file.kind \in {"corrupt", "notobject", "missing"}
    /\ config = default_config

\* C13: load_config on a file that holds a JSON object fills the plant_<i>
\* keys that are missing, and a missing last_dry_check, with the defaults,
\* and leaves every entry the file has, and every key the program does not
\* know, as the file has it.
C13_LoadPartial ==
    [][(StartStep /\ file.kind = "doc")
          => /\ \A i \in Plants :
                  config'.plants[i] = IF file.plants[i].kind = "absent"
                                      THEN DefaultEntry(i) ELSE file.plants[i]
             /\ config'.last_dry_check = IF file.last_dry_check.kind = "absent"
                                         THEN LdcEmpty ELSE file.last_dry_check
             /\ config'.extra = file.extra]_vars

\* The program was started on an object that lacks a plant and has an
\* unknown key (a load does not write, so the file is the one it read).
C13_Witness ==
    /\ relaunched
    /\ root_alive
    /\ file.kind = "doc"
    /\ file.extra # {}
    /\ \E i, j \in Plants :
          /\ file.plants[i].kind = "absent"
          /\ config.plants[i] = DefaultEntry(i)
          /\ file.plants[j].kind = "ok"
          /\ config.plants[j] = file.plants[j]
    /\ config.extra = file.extra

\* C14 (as the specification states it): for any config in memory, a save
\* followed by a load gives every plant the dry and wet threshold it had.
\* Under SpecRoundTrip the file a start reads is the one on_closing's
\* save_config left. When the write fails (save_config logs the exception and
\* returns) the load reads the older content, or the default after a
\* truncated write.
SameThresholds(c1, c2) ==
    \A i \in Plants :
        /\ c1.plants[i].dry_threshold = c2.plants[i].dry_threshold
        /\ c1.plants[i].wet_threshold = c2.plants[i].wet_threshold

C15_AsClaimed ==
    [][file' # file => (file'.kind = "doc" /\ file' = json_dump(config'))]_vars

C17_AsClaimed ==
    ~hardware_ready
        => \A k \in 1 .. Len(queue) : queue[k].fn \notin {"update_gui", "insert"}

\* C18 (as the specification states it): at the end of a monitor cycle that
\* went through every plant, the alert set holds exactly the plants
\* classified DRY in that cycle, whatever their names are: the names in
\* current_dry_plants are the names of the plants whose latest classification
\* had show_alert.
\* The set holds names, not ids (lines 421-428): of two plants with one name
\* the one that is not DRY removes the name the DRY one put in, and a name
\* put in before a rename is never taken out.
CycleEnd == m_pc = "classify" /\ m_pc' = "while"

C18_AsClaimed ==
    [][CycleEnd => current_dry_plants' =
                      {config.plants[i].name : i \in {j \in Plants : last_alert'[j]}}]_vars

\* C19 (as the specification states it): under every interleaving of the
\* listener and the monitor loop, the raw code and the voltage the monitor
\* takes from a plant's channel in one cycle are those of one received
\* reading: the raw code is int(voltage * 1023 / 3.3).
\* Lines 412 and 413 read self.channels[i] twice, with no lock; the listener
\* can put a new object there between the two reads (line 68).
C19_AsClaimed ==
    [][(m_pc = "voltage" /\ m_pc' = "classify") => raw_value' = ToRaw(voltage')]_vars

\* C20 (as the specification states it): a failure while one plant is
\* processed in a cycle stays with that plant: the loop goes on to the next
\* plant (or ends the cycle after the last one) and does not enter the
\* handler that reports a hardware error for all plants.
\* The for loop of lines 409-428 has no try of its own: an exception of
\* get_moisture_status (a plant's entry without a usable threshold) leaves
\* it for the handler of line 431, which posts update_gui_error.
C20_AsClaimed ==
    [][(m_pc = "classify" /\ root_alive /\ m_pc' # "classify")
          => m_pc' \in {"for", "while"}]_vars

\* C21: while self.monitoring is set the monitor loop does not end; an
\* exception that ends a cycle is caught by the handler of line 431, which
\* posts update_gui_error and, after its sleep, goes back to the while
\* condition; and from the handler the loop comes to the start of another
\* cycle, unless the window is closed first.
C21_LoopGoesOn ==
    /\ [](monitoring => m_pc \notin {"exit", "dead"})
    /\ [][(m_pc = "except" /\ m_pc' # "except" /\ monitoring)
             => /\ m_pc' = "while"
                /\ queue' = Append(queue,
                               Callback("update_gui_error", 0, 0, NoStatus, ""))]_vars
    /\ ((m_pc = "except" /\ monitoring) ~> (m_pc = "daily" \/ ~monitoring))

\* A cycle has failed, its error callback is still pending, and the next
\* cycle has begun.
C21_Witness ==
    /\ monitoring
    /\ m_pc = "daily"
    /\ \E k \in 1 .. Len(queue) : queue[k].fn = "update_gui_error"

C23_ListenerSurvives ==
    /\ []((l_hist = "bad" /\ monitoring)
             => /\ l_pc = "run"
                /\ \A msg \in Messages : ENABLED receive_data(msg))
    /\ [][\A msg \in Messages :
             (l_hist = "bad" /\ ValidMessage(msg) /\ receive_data(msg))
                => \A i \in Plants :
                      msg.keys[i].kind = "num" => channels'[i] = Obj(msg.keys[i].v)]_vars

\* After a message that raised, a later message put 1.0 V into plant 0.
C23_Witness ==
    /\ l_hist = "applied"
    /\ l_pc = "run"
    /\ channels[0] = Obj(10)

\* C24 (as the specification states it): between cycles, when every callback
\* posted to the GUI thread has run, the dry list shows exactly the names in
\* current_dry_plants, each once.
\* The daily check empties current_dry_plants (line 404) and posts nothing, so
\* a plant that is still DRY is inserted into the list a second time; and
\* update_gui_error empties the list (line 500) while the set keeps its names.
C24_AsClaimed ==
    (queue = <<>> /\ m_pc = "while")
        => /\ {dry_listbox[k] : k \in 1 .. Len(dry_listbox)} = current_dry_plants
           /\ Len(dry_listbox) = Cardinality(current_dry_plants)

\* C25 (as the specification states it): once on_closing has saved the
\* config and destroyed the window, the monitor thread posts no callback and
\* writes the config file no more.
\* on_closing does not wait for the monitor thread: a cycle that passed the
\* while condition before the flag was cleared runs its daily check after the
\* window is gone and calls save_config (line 406). (root.after raises on
\* the destroyed window, so no callback is posted.)
C25_AsClaimed == [][~root_alive => (file' = file /\ queue' = queue)]_vars

====
